---- MODULE Spec2Model ----
(***************************************************************************)
(* Model of src/main.rs: a batch job that polls an HTTP endpoint, decodes  *)
(* each response body into a CatFact and saves it in a jfs file store,     *)
(* five times with a 5000 ms sleep after each save.                        *)
(*                                                                         *)
(* One action per statement of main that calls a collaborator; the `?`     *)
(* operator and the explicit `return Err` are the Fail step.               *)
(***************************************************************************)
EXTENDS Integers, Sequences, FiniteSets, TLC

VARIABLES
    pc,          \* position of the single thread in main
    count,       \* `count`, main.rs:13
    response,    \* `response` (its status code), <<>> when none is held
    body,        \* the text read from the response in this pass, <<>> when none
    string,      \* `string: CatFact`, <<>> when none is held
    key,         \* `key` returned by db.save, <<>> when none is held
    disk,        \* files under data/: key -> stored CatFact
    saved,       \* history: <<key, CatFact>> of every db.save that returned Ok
    logs,        \* history: info! records issued
    fetches,     \* history: number of client.get(uri).send() calls
    saveCalls,   \* history: number of db.save calls, failed ones included
    opens,       \* history: number of Store::new calls
    sleeps,      \* history: number of thread::sleep calls that returned
    slept,       \* ms spent in thread::sleep since the last db.save returned
    err,         \* the error main returned, <<>> when none
    exit         \* process exit status, <<>> while running

vars == <<pc, count, response, body, string, key, disk, saved, logs,
          fetches, saveCalls, opens, sleeps, slept, err, exit>>

-----------------------------------------------------------------------------
(* Program constants *)

MaxCount == 5
SleepMs == 5000

(* Bounds of the model *)

NumPayloads == 2      \* distinct `text` values the upstream may send
MaxOversleep == 1     \* thread::sleep may return up to this many ms late
MaxStale == 1         \* files already under data/ when the run starts

Payloads == 1..NumPayloads

\* Status codes the upstream may answer with (http::StatusCode is 100..=999);
\* the values on both sides of every class boundary the validator tests.
StatusCodes == {100, 200, 399, 400, 404, 499, 500, 599, 600}

-----------------------------------------------------------------------------
(* Decoder: serde_json::from_str::<CatFact> *)

\* The derived Deserialize of CatFact and Status, as a map from each field
\* name to the JSON value kind it accepts.  Kinds: "bool", "str", "i32" (an
\* integer that fits i32), "big" (an integer that does not), "null", "obj".
CatFact ==
    ("used" :> "bool") @@ ("source" :> "str") @@ ("type" :> "str") @@
    ("deleted" :> "bool") @@ ("_id" :> "str") @@ ("__v" :> "i32") @@
    ("text" :> "str") @@ ("updatedAt" :> "str") @@ ("createdAt" :> "str") @@
    ("status" :> "obj") @@ ("user" :> "str")

Status == ("verified" :> "bool") @@ ("sentCount" :> "i32")

Drop(f, k) == [x \in DOMAIN f \ {k} |-> f[x]]
With(f, k, kind) == [x \in DOMAIN f \cup {k} |-> IF x = k THEN kind ELSE f[x]]

\* A response body: whether it is well-formed JSON holding one object, the
\* kind of every member of that object and of its "status" member, and the
\* value of its "text" member (0 when it has none).
Body(wf, top, st, p) == [wellFormed |-> wf, top |-> top, status |-> st, text |-> p]

ValidBodies == {Body(TRUE, CatFact, Status, p) : p \in Payloads}

\* Bodies with members the schema does not have, and nothing else wrong.
ExtraBodies ==
    { Body(TRUE, With(CatFact, "extra", "str"), Status, 1),
      Body(TRUE, CatFact, With(Status, "feedback", "str"), 1) }

\* Bodies with a schema member missing.
MissingBodies ==
    { Body(TRUE, Drop(CatFact, "text"), Status, 0),
      Body(TRUE, CatFact, Drop(Status, "sentCount"), 1),
      Body(TRUE, With(Drop(CatFact, "user"), "extra", "str"), Status, 1) }

\* Bodies with a schema member of the wrong kind.
MistypedBodies ==
    { Body(TRUE, With(CatFact, "__v", "big"), Status, 1),
      Body(TRUE, CatFact, With(Status, "verified", "null"), 1),
      Body(TRUE, With(CatFact, "status", "str"), Status, 1) }

\* Not JSON at all (an HTML error page, an empty body).
MalformedBodies == { Body(FALSE, <<>>, <<>>, 0) }

Bodies == ValidBodies \cup ExtraBodies \cup MissingBodies
              \cup MistypedBodies \cup MalformedBodies

\* Deserialize one struct: every field of the schema must be present with
\* the kind the field's type accepts; members the schema does not name are
\* skipped (neither struct carries deny_unknown_fields).
StructOk(schema, obj) ==
    \A f \in DOMAIN schema : f \in DOMAIN obj /\ obj[f] = schema[f]

\* Mutant: the kind of a present member is not checked.
FromStrAnyKind(b) ==
    IF /\ b.wellFormed
       /\ DOMAIN CatFact \subseteq DOMAIN b.top
       /\ DOMAIN Status \subseteq DOMAIN b.status
    THEN [ok |-> TRUE, value |-> [text |-> b.text]]
    ELSE [ok |-> FALSE, value |-> <<>>]

\* serde_json::from_str::<CatFact>(text): Ok(record) or Err.
FromStr(b) ==
    IF b.wellFormed /\ StructOk(CatFact, b.top) /\ StructOk(Status, b.status)
    THEN [ok |-> TRUE, value |-> [text |-> b.text]]
    ELSE [ok |-> FALSE, value |-> <<>>]

-----------------------------------------------------------------------------
(* Status validator: http::StatusCode::is_client_error / is_server_error *)

IsClientError(code) == 400 <= code /\ code < 500
IsServerError(code) == 500 <= code /\ code < 600

-----------------------------------------------------------------------------
(* Store: jfs::Store *)

\* Store::save draws a fresh v4 UUID as the id.  main never inspects an id,
\* it only logs it, so every run is a renaming of the run in which the ids
\* come out as 1, 2, 3, ...
NewKey(d) == CHOOSE k \in 1..(Cardinality(DOMAIN d) + 1) :
                 /\ k \notin DOMAIN d
                 /\ \A j \in 1..(k - 1) : j \in DOMAIN d

\* Files left under data/ by earlier runs.
StaleDisk(n) == [k \in 1..n |-> [text |-> 1]]

-----------------------------------------------------------------------------
(* main *)

Init ==
    /\ pc = "start"
    /\ count = 0
    /\ response = <<>>
    /\ body = <<>>
    /\ string = <<>>
    /\ key = <<>>
    /\ \E n \in 0..MaxStale : disk = StaleDisk(n)
    /\ saved = <<>>
    /\ logs = <<>>
    /\ fetches = 0
    /\ saveCalls = 0
    /\ opens = 0
    /\ sleeps = 0
    /\ slept = 0
    /\ err = <<>>
    /\ exit = <<>>

\* Mutant: the error is recorded and the loop goes on to its next pass.
FailAndContinue(e) ==
    /\ pc' = "send"
    /\ err' = e
    /\ exit' = exit

\* `?` on an Err, and `return Err(..)`: main returns the error, the runtime
\* prints it and the process exits with status 1.  Nothing else changes.
Fail(e) ==
    /\ pc' = "Failed"
    /\ err' = e
    /\ exit' = <<1>>

\* main.rs:11-12  env_logger::init(); info!("Starting up");
StartUp ==
    /\ pc = "start"
    /\ logs' = Append(logs, <<"Starting up">>)
    /\ pc' = "open"
    /\ UNCHANGED <<count, response, body, string, key, disk, saved,
                   fetches, saveCalls, opens, sleeps, slept, err, exit>>

\* main.rs:13-16  count = 0; Client::new(); Store::new("data")?
OpenStore ==
    /\ pc = "open"
    /\ count' = 0
    /\ opens' = opens + 1
    /\ \/ pc' = "send" /\ UNCHANGED <<err, exit>>
       \/ Fail(<<"store">>)
    /\ UNCHANGED <<response, body, string, key, disk, saved, logs,
                   fetches, saveCalls, sleeps, slept>>

\* Mutant: the counter is incremented after send()? instead of before it.
SendCountsAfter ==
    /\ pc = "send"
    /\ fetches' = fetches + 1
    /\ \/ \E code \in StatusCodes :
             /\ response' = <<code>>
             /\ count' = count + 1
             /\ pc' = "validate"
             /\ UNCHANGED <<err, exit>>
       \/ Fail(<<"transport">>) /\ UNCHANGED <<response, count>>
    /\ UNCHANGED <<body, string, key, disk, saved, logs, saveCalls, opens,
                   sleeps, slept>>

\* main.rs:18-19  count += 1; client.get(uri).send()?
Send ==
    /\ pc = "send"
    /\ count' = count + 1
    /\ fetches' = fetches + 1
    /\ \/ \E code \in StatusCodes :
             /\ response' = <<code>>
             /\ pc' = "validate"
             /\ UNCHANGED <<err, exit>>
       \/ Fail(<<"transport">>) /\ UNCHANGED response
    /\ UNCHANGED <<body, string, key, disk, saved, logs, saveCalls, opens,
                   sleeps, slept>>

\* Mutant: only is_client_error() is tested.
ValidateClientOnly ==
    /\ pc = "validate"
    /\ IF IsClientError(response[1])
       THEN Fail(<<"status", response[1]>>)
       ELSE pc' = "text" /\ UNCHANGED <<err, exit>>
    /\ UNCHANGED <<count, response, body, string, key, disk, saved, logs,
                   fetches, saveCalls, opens, sleeps, slept>>

\* main.rs:20-22  the status check
Validate ==
    /\ pc = "validate"
    /\ IF IsClientError(response[1]) \/ IsServerError(response[1])
       THEN Fail(<<"status", response[1]>>)
       ELSE pc' = "text" /\ UNCHANGED <<err, exit>>
    /\ UNCHANGED <<count, response, body, string, key, disk, saved, logs,
                   fetches, saveCalls, opens, sleeps, slept>>

\* main.rs:23  response.text()?  (consumes the response, reads the body)
ReadText ==
    /\ pc = "text"
    /\ response' = <<>>
    /\ \/ \E b \in Bodies :
             /\ body' = <<b>>
             /\ pc' = "decode"
             /\ UNCHANGED <<err, exit>>
       \/ Fail(<<"transport">>) /\ UNCHANGED body
    /\ UNCHANGED <<count, string, key, disk, saved, logs, fetches, saveCalls,
                   opens, sleeps, slept>>

\* main.rs:23  serde_json::from_str(..)?
Decode ==
    /\ pc = "decode"
    /\ LET r == FromStr(body[1]) IN
         IF r.ok
         THEN string' = <<r.value>> /\ pc' = "save" /\ UNCHANGED <<err, exit>>
         ELSE Fail(<<"decode">>) /\ UNCHANGED string
    /\ UNCHANGED <<count, response, body, key, disk, saved, logs, fetches,
                   saveCalls, opens, sleeps, slept>>

\* Mutant: the record is written under the id of the first file on disk.
SaveOverwrites ==
    /\ pc = "save"
    /\ saveCalls' = saveCalls + 1
    /\ \/ LET k == IF DOMAIN disk = {} THEN NewKey(disk)
                   ELSE CHOOSE x \in DOMAIN disk : \A y \in DOMAIN disk : x <= y
          IN
             /\ disk' = (k :> string[1]) @@ disk
             /\ saved' = Append(saved, <<k, string[1]>>)
             /\ key' = <<k>>
             /\ slept' = 0
             /\ pc' = "log"
             /\ UNCHANGED <<err, exit>>
       \/ Fail(<<"store">>) /\ UNCHANGED <<disk, saved, key, slept>>
    /\ UNCHANGED <<count, response, body, string, logs, fetches, opens, sleeps>>

\* main.rs:24  db.save(&string)?
Save ==
    /\ pc = "save"
    /\ saveCalls' = saveCalls + 1
    /\ \/ LET k == NewKey(disk) IN
             /\ disk' = (k :> string[1]) @@ disk
             /\ saved' = Append(saved, <<k, string[1]>>)
             /\ key' = <<k>>
             /\ slept' = 0
             /\ pc' = "log"
             /\ UNCHANGED <<err, exit>>
       \/ Fail(<<"store">>) /\ UNCHANGED <<disk, saved, key, slept>>
    /\ UNCHANGED <<count, response, body, string, logs, fetches, opens, sleeps>>

\* Mutant: the line reports the pass number instead of the key.
LogCount ==
    /\ pc = "log"
    /\ logs' = Append(logs, <<"Written one file with key: ", count>>)
    /\ pc' = "sleep"
    /\ UNCHANGED <<count, response, body, string, key, disk, saved,
                   fetches, saveCalls, opens, sleeps, slept, err, exit>>

\* main.rs:25  info!("Written one file with key: {}", key)
Log ==
    /\ pc = "log"
    /\ logs' = Append(logs, <<"Written one file with key: ", key[1]>>)
    /\ pc' = "sleep"
    /\ UNCHANGED <<count, response, body, string, key, disk, saved,
                   fetches, saveCalls, opens, sleeps, slept, err, exit>>

\* Mutant: Duration::from_micros(5000).
SleepMicros ==
    /\ pc = "sleep"
    /\ \E over \in 0..MaxOversleep : slept' = slept + (SleepMs \div 1000) + over
    /\ sleeps' = sleeps + 1
    /\ pc' = "test"
    /\ UNCHANGED <<count, response, body, string, key, disk, saved, logs,
                   fetches, saveCalls, opens, err, exit>>

\* Mutant: the counter is tested before sleeping, the last pass does not sleep.
SleepUnlessLast ==
    /\ pc = "sleep"
    /\ IF count = MaxCount
       THEN UNCHANGED <<slept, sleeps>>
       ELSE /\ \E over \in 0..MaxOversleep : slept' = slept + SleepMs + over
            /\ sleeps' = sleeps + 1
    /\ pc' = "test"
    /\ UNCHANGED <<count, response, body, string, key, disk, saved, logs,
                   fetches, saveCalls, opens, err, exit>>

\* main.rs:26  thread::sleep(Duration::from_millis(5000)): returns after at
\* least the requested duration.
Sleep ==
    /\ pc = "sleep"
    /\ \E over \in 0..MaxOversleep : slept' = slept + SleepMs + over
    /\ sleeps' = sleeps + 1
    /\ pc' = "test"
    /\ UNCHANGED <<count, response, body, string, key, disk, saved, logs,
                   fetches, saveCalls, opens, err, exit>>

\* Mutant: the loop breaks one pass early.
TestBreaksEarly ==
    /\ pc = "test"
    /\ body' = <<>>
    /\ string' = <<>>
    /\ key' = <<>>
    /\ IF count = MaxCount - 1
       THEN pc' = "Done" /\ exit' = <<0>>
       ELSE pc' = "send" /\ UNCHANGED exit
    /\ UNCHANGED <<count, response, disk, saved, logs, fetches, saveCalls,
                   opens, sleeps, slept, err>>

\* Mutant: the loop breaks one pass late.
TestBreaksLate ==
    /\ pc = "test"
    /\ body' = <<>>
    /\ string' = <<>>
    /\ key' = <<>>
    /\ IF count = MaxCount + 1
       THEN pc' = "Done" /\ exit' = <<0>>
       ELSE pc' = "send" /\ UNCHANGED exit
    /\ UNCHANGED <<count, response, disk, saved, logs, fetches, saveCalls,
                   opens, sleeps, slept, err>>

\* main.rs:27-33  if count == 5 { break } else { continue }; Ok(())
\* The locals of the pass are dropped either way.
Test ==
    /\ pc = "test"
    /\ body' = <<>>
    /\ string' = <<>>
    /\ key' = <<>>
    /\ IF count = MaxCount
       THEN pc' = "Done" /\ exit' = <<0>>
       ELSE pc' = "send" /\ UNCHANGED exit
    /\ UNCHANGED <<count, response, disk, saved, logs, fetches, saveCalls,
                   opens, sleeps, slept, err>>

Next ==
    \/ StartUp
    \/ OpenStore
    \/ Send
    \/ Validate
    \/ ReadText
    \/ Decode
    \/ Save
    \/ Log
    \/ Sleep
    \/ Test

Spec == Init /\ [][Next]_vars

\* Every blocking call returns: the thread always takes its next step.
FairSpec == Spec /\ WF_vars(Next)

Terminal == pc \in {"Done", "Failed"}

-----------------------------------------------------------------------------
(* Properties *)

\* The "Written one file with key" records issued so far.
Written == SelectSeq(logs, LAMBDA l : l[1] = "Written one file with key: ")
Started == SelectSeq(logs, LAMBDA l : l[1] = "Starting up")

\* The files this run has written.
Persisted == {saved[i][1] : i \in 1..Len(saved)}

FailedWith(kind) == pc = "Failed" /\ err # <<>> /\ err[1] = kind

\* C1: a run in which no call fails ends in Done with exit status 0, having
\* issued exactly 5 fetches, saved exactly 5 records and issued exactly 5
\* "Written one file" lines; a run that has met no error and has stopped has
\* stopped in Done.
C1_HealthyRunFive ==
    /\ pc = "Done" =>
         /\ exit = <<0>> /\ err = <<>>
         /\ fetches = MaxCount
         /\ saveCalls = MaxCount
         /\ Len(saved) = MaxCount
         /\ Cardinality(Persisted) = MaxCount
         /\ Len(Written) = MaxCount
    /\ (err = <<>> /\ pc # "Done") => ENABLED Next

C1_Witness ==
    /\ pc = "Done"
    /\ saved[1][2] # saved[2][2]

\* C2: when pass k fails at the status check or at decoding, db.save has
\* not been called in pass k, exactly k-1 records are persisted, and no step
\* of the run removes or changes a file that is already on disk.
C2_Intact == \A k \in DOMAIN disk : k \in DOMAIN disk' /\ disk'[k] = disk[k]

C2_NoSaveOnStatusOrDecodeFailure ==
    /\ [](FailedWith("status") \/ FailedWith("decode") =>
            /\ saveCalls = count - 1
            /\ Len(saved) = count - 1
            /\ Cardinality(Persisted) = count - 1
            /\ key = <<>>
            /\ \A i \in 1..Len(saved) : disk[saved[i][1]] = saved[i][2])
    /\ [][C2_Intact]_vars

C2_Witness ==
    /\ FailedWith("decode")
    /\ count = 3
    /\ body[1] \in MissingBodies
    /\ Len(saved) = 2
    /\ saved[1][2] # saved[2][2]

\* How a body can differ from the schema.
HasMissing(b) ==
    \/ ~b.wellFormed
    \/ \E f \in DOMAIN CatFact : f \notin DOMAIN b.top
    \/ \E f \in DOMAIN Status : f \notin DOMAIN b.status
HasMistyped(b) ==
    \/ \E f \in DOMAIN CatFact \cap DOMAIN b.top : b.top[f] # CatFact[f]
    \/ \E f \in DOMAIN Status \cap DOMAIN b.status : b.status[f] # Status[f]
HasExtra(b) ==
    \/ DOMAIN b.top \ DOMAIN CatFact # {}
    \/ DOMAIN b.status \ DOMAIN Status # {}

\* The pass that read the body now held ended in a decoding error before
\* db.save, or has not reached the decoder yet.
DecodeRejects ==
    /\ pc \in {"decode", "Failed"}
    /\ pc = "Failed" =>
         err = <<"decode">> /\ saveCalls = count - 1 /\ Len(saved) = count - 1

\* C3 as stated: a body with a missing field, a field of the wrong type or
\* an extra field is rejected by the decoder and no record is saved for it.
C3_ExtraFieldRejected ==
    (body # <<>> /\ (HasMissing(body[1]) \/ HasMistyped(body[1]) \/ HasExtra(body[1])))
        => DecodeRejects

\* C3, amended: a body with a missing field or a field of the wrong type is
\* rejected by the decoder and no record is saved for it; a body whose only
\* difference from the schema is an extra member is decoded like the body
\* without that member and its record goes on to db.save.
C3_MissingOrMistypedRejected ==
    /\ (body # <<>> /\ (HasMissing(body[1]) \/ HasMistyped(body[1])))
           => DecodeRejects
    /\ (body # <<>> /\ ~HasMissing(body[1]) /\ ~HasMistyped(body[1])) =>
           /\ pc = "Failed" => err = <<"store">>
           /\ string # <<>> => string[1] = [text |-> body[1].text]
           /\ pc \in {"log", "sleep", "test"} =>
                  saved[Len(saved)][2] = [text |-> body[1].text]

C3_Witness ==
    /\ pc = "log"
    /\ HasExtra(body[1])
    /\ Len(saved) = count

\* C4: once an error of any kind has occurred the run is in Failed with a
\* non-zero exit status, and from Failed nothing happens any more: no fetch,
\* no save, no log line, no sleep, no other position, no Done.
C4_Frozen ==
    pc = "Failed" =>
        /\ pc' = "Failed"
        /\ fetches' = fetches /\ saveCalls' = saveCalls /\ saved' = saved
        /\ disk' = disk /\ logs' = logs /\ sleeps' = sleeps
        /\ count' = count /\ exit' = exit /\ err' = err

C4_FailFast ==
    /\ [](err # <<>> => pc = "Failed")
    /\ [](pc = "Failed" =>
            /\ exit = <<1>>
            /\ err # <<>>
            /\ err[1] \in {"transport", "status", "decode", "store"}
            /\ ~ENABLED Next)
    /\ [](pc = "Done" => err = <<>>)
    /\ [][C4_Frozen]_vars

C4_Witness ==
    /\ pc = "Failed"
    /\ err = <<"status", 404>>
    /\ count = 2
    /\ Len(saved) = 1

\* C5: whenever the fetch of pass n+1 has been issued (n >= 1), the sleep of
\* pass n has returned after the save of pass n, so at least 5000 ms of
\* sleep lie between that save and this fetch.
C5_SleepBetweenPasses ==
    (fetches >= 2 /\ Len(saved) = fetches - 1) =>
        /\ sleeps = fetches - 1
        /\ slept >= SleepMs

C5_Witness ==
    /\ pc = "validate"
    /\ fetches = 3
    /\ slept = SleepMs + MaxOversleep

\* C6: exactly one "Starting up" line is issued, before the store is opened;
\* in Done and in Failed there is one "Written one file with key" line per
\* saved record, in order, each with the key that save returned.
C6_LogLines ==
    /\ Len(Started) = (IF pc = "start" THEN 0 ELSE 1)
    /\ pc # "start" => logs[1] = <<"Starting up">>
    /\ opens > 0 => Len(Started) = 1
    /\ Len(logs) = Len(Started) + Len(Written)
    /\ Terminal =>
         /\ Len(Written) = Len(saved)
         /\ \A i \in 1..Len(saved) : Written[i][2] = saved[i][1]

C6_Witness ==
    /\ pc = "Failed"
    /\ Len(Written) = 2
    /\ Written[2][2] # 2

\* C7: the sleep of a pass comes before the counter is tested; the test
\* goes to the next pass when count < 5 and to Done when count = 5, so Done
\* is reached with 5 sleeps completed.
C7_TestStep ==
    (pc = "test" /\ pc' # "test") =>
        /\ sleeps = count
        /\ count < MaxCount => pc' = "send"
        /\ count = MaxCount => pc' = "Done"

C7_SleepThenTest ==
    /\ [](pc = "Done" => sleeps = MaxCount /\ count = MaxCount)
    /\ [](pc = "send" => sleeps = count /\ count < MaxCount)
    /\ [](pc = "test" => sleeps = count /\ Len(saved) = count)
    /\ [][C7_TestStep]_vars

C7_Witness ==
    /\ pc = "test"
    /\ count = MaxCount
    /\ sleeps = MaxCount
    /\ slept > SleepMs

\* C8: the validator fails the run, with the status code in the error and
\* the body unread, exactly when the code is in 400..599; every other code
\* goes on to text() and the decoder, and a record reaches db.save exactly
\* when the decoder accepts the body.
C8_ValidateStep ==
    (pc = "validate" /\ pc' # "validate") =>
        IF response[1] \in 400..599
        THEN /\ pc' = "Failed"
             /\ err' = <<"status", response[1]>>
             /\ body' = <<>>
        ELSE /\ pc' = "text"
             /\ err' = <<>>

C8_DecodeStep ==
    (pc = "decode" /\ pc' # "decode") =>
        IF FromStr(body[1]).ok
        THEN pc' = "save" /\ string' = <<FromStr(body[1]).value>>
        ELSE pc' = "Failed" /\ err' = <<"decode">> /\ saveCalls' = count - 1

C8_StatusValidator ==
    /\ [](FailedWith("status") =>
            /\ err[2] \in 400..599
            /\ response = <<err[2]>>
            /\ body = <<>>)
    /\ [](pc \in {"text"} => response[1] \notin 400..599)
    /\ [][C8_ValidateStep]_vars
    /\ [][C8_DecodeStep]_vars

C8_Witness ==
    /\ pc = "Failed"
    /\ err = <<"status", 599>>
    /\ count = 2

\* C9: when every blocking call returns, the run ends in Done or Failed;
\* the counter starts at 0, changes only by the one increment of each pass,
\* and no run issues more than 5 fetches or 5 saves.
C9_CountStep ==
    count' # count => (pc = "send" /\ count' = count + 1)

C9_Terminates ==
    /\ <>Terminal
    /\ [](pc = "start" => count = 0)
    /\ [](count <= MaxCount /\ fetches <= MaxCount /\ saveCalls <= MaxCount)
    /\ [][C9_CountStep]_vars

C9_Witness ==
    /\ pc = "Failed"
    /\ fetches = MaxCount
    /\ saveCalls = MaxCount

\* C10: once the first pass has begun, 1 <= count <= 5, the number of
\* fetches issued is count and the number of records saved is count-1 or
\* count; Store::new has been called exactly once, before the loop.
C10_LoopInvariant ==
    /\ (fetches >= 1 \/ pc \in {"validate", "text", "decode", "save", "log",
                                "sleep", "test", "Done"}) =>
         /\ 1 <= count /\ count <= MaxCount
         /\ fetches = count
         /\ Len(saved) \in {count - 1, count}
         /\ pc \in {"validate", "text", "decode", "save"} => Len(saved) = count - 1
         /\ pc \in {"log", "sleep", "test", "send", "Done"} => Len(saved) = count
         /\ opens = 1
    /\ opens = (IF pc \in {"start", "open"} THEN 0 ELSE 1)

C10_Witness ==
    /\ pc = "Failed"
    /\ err = <<"transport">>
    /\ count = 4
    /\ Len(saved) = 3

====
